---- MODULE Spec2Model ----
(***************************************************************************)
(* A model of pool.c: a fixed-capacity memory pool that tracks its buffer  *)
(* with two doubly-linked lists of llnode records (active, available).     *)
(*                                                                         *)
(* Pointers to llnode are node identifiers 1..MaxNodes, NULL is 0.         *)
(* Pointers into the buffer are byte offsets from p->h, and the null      *)
(* byte pointer is NOADDR.  A call is one atomic step.  A call that        *)
(* dereferences a node that is not allocated (use after free, double free) *)
(* has undefined behaviour: the step leads to a stopped state with         *)
(* status = "ub" about which nothing else is asserted.  A call whose list  *)
(* scan runs round a cycle never returns: status = "hang".                 *)
(***************************************************************************)
EXTENDS Integers, Sequences, FiniteSets, TLC

MaxCap == 3        \* largest capacity handed to pool_create
MaxNodes == 4      \* number of llnode cells malloc can hand out

NULL == 0          \* null struct llnode *
NOADDR == -1       \* null char *
C_true == 1
C_false == 0
UNDEF == NOADDR - 1   \* "no return value": the call did not return

Nodes == 1..MaxNodes
Ptr == 0..MaxNodes

\* contents of a cell that is not allocated
Zero == [s |-> 0, start |-> 0, prev |-> NULL, next |-> NULL]

VARIABLES
  cap,          \* size given to pool_create
  heap,         \* Ptr -> llnode : the llnode cells
  live,         \* cells malloc'ed and not freed
  active,       \* p->active
  available,    \* p->available
  buf,          \* p->h : 0..cap-1 -> byte
  status,       \* "live", "destroyed", "ub", "hang"
  last,         \* the last call and what it returned: [op, ret]
  held          \* the caller's record: the <<offset, size>> it was returned
                \* and has not released or had moved since

vars == <<cap, heap, live, active, available, buf, status, last, held>>

\* The machine state the C functions work on.
Mach == [heap |-> heap, live |-> live, active |-> active,
         available |-> available, buf |-> buf, err |-> "", ret |-> UNDEF]

-----------------------------------------------------------------------------
\* Memory primitives

\* the first error of a call sticks
Stop(m, e) == IF m.err = "" THEN [m EXCEPT !.err = e] ELSE m

\* a read through pointer n
Deref(m, n) == IF n \in m.live THEN m ELSE Stop(m, "ub")

\* n->f = v
Store(m, n, f, v) ==
  IF n \in m.live THEN [m EXCEPT !.heap[n][f] = v] ELSE Stop(m, "ub")

\* free(n)
Free(m, n) ==
  IF n \in m.live
    THEN [m EXCEPT !.live = @ \ {n}, !.heap[n] = Zero]
    ELSE Stop(m, "ub")

\* The cells malloc may return next.  Free cells that no pointer refers to
\* are interchangeable, so the least of them stands for all; a free cell a
\* dangling pointer still refers to is a choice of its own.
Min(S) == CHOOSE x \in S : \A y \in S : x <= y
Referred(m) ==
  {m.active, m.available} \cup {m.heap[n].prev : n \in m.live}
                         \cup {m.heap[n].next : n \in m.live}
MallocChoices(m) ==
  LET free == Nodes \ m.live
      fresh == free \ Referred(m)
  IN IF free = {} THEN {NULL}
     ELSE (free \cap Referred(m)) \cup (IF fresh = {} THEN {} ELSE {Min(fresh)})

create_node(m, id, size, begin) ==
  IF id \notin Nodes \ m.live
    THEN Stop(m, "oom")
    ELSE [m EXCEPT !.live = @ \cup {id},
                   !.heap[id] = [s |-> size, start |-> begin,
                                 prev |-> NULL, next |-> NULL]]

-----------------------------------------------------------------------------
\* add_active

RECURSIVE add_active_scan(_, _, _, _)
add_active_scan(m, curr, node, fuel) ==
  IF curr \notin m.live \/ node \notin m.live THEN [n |-> curr, st |-> "ub"]
  ELSE IF fuel = 0 THEN [n |-> curr, st |-> "hang"]
  ELSE IF m.heap[curr].start < m.heap[node].start /\ m.heap[curr].next # NULL
    THEN add_active_scan(m, m.heap[curr].next, node, fuel - 1)
    ELSE [n |-> curr, st |-> "ok"]

add_active(m, node) ==
  IF m.active # NULL THEN
    LET r == add_active_scan(m, m.active, node, MaxNodes) IN
    IF r.st # "ok" THEN Stop(m, r.st)
    ELSE
      LET curr_node == r.n
          pre_node == m.heap[curr_node].prev
      IN
      IF m.heap[curr_node].start > m.heap[node].start THEN
        LET m1 == IF pre_node = NULL
                    THEN [m EXCEPT !.active = node]
                    ELSE Store(m, pre_node, "next", node)
            m2 == Store(m1, node, "prev", pre_node)
            m3 == Store(m2, node, "next", curr_node)
        IN Store(m3, curr_node, "prev", node)
      ELSE
        LET m1 == Store(m, curr_node, "next", node)
            m2 == Store(m1, node, "prev", curr_node)
        IN Store(m2, node, "next", NULL)
  ELSE
    LET m1 == Store(m, node, "prev", NULL)
        m2 == Store(m1, node, "next", NULL)
    IN [m2 EXCEPT !.active = node]

-----------------------------------------------------------------------------
\* same_size_available, more_size_available

same_size_available(m, node) ==
  LET m0 == Deref(m, node)
      pre_node == m.heap[node].prev
      next_node == m.heap[node].next
  IN
  IF pre_node = NULL /\ next_node = NULL THEN [m0 EXCEPT !.available = NULL]
  ELSE IF next_node = NULL THEN Store(m0, pre_node, "next", NULL)
  ELSE IF pre_node = NULL THEN
    LET m1 == Store(m0, next_node, "prev", NULL)
    IN [m1 EXCEPT !.available = next_node]
  ELSE
    LET m1 == Store(m0, pre_node, "next", next_node)
    IN Store(m1, next_node, "prev", pre_node)

more_size_available(m, node, size, id) ==
  LET m0 == Deref(m, node)
      node_size == m.heap[node].s
      next_node == m.heap[node].next
      pre_node == m.heap[node].prev
      new_start == m.heap[node].start + size
      new_node == id
      m1 == create_node(m0, id, node_size - size, new_start)
      m2 == IF pre_node = NULL
              THEN Store([m1 EXCEPT !.available = new_node], new_node, "prev", NULL)
              ELSE Store(Store(m1, pre_node, "next", new_node),
                         new_node, "prev", pre_node)
      m3 == IF next_node = NULL
              THEN Store(m2, new_node, "next", next_node)
              ELSE Store(Store(m2, new_node, "next", next_node),
                         next_node, "prev", new_node)
  IN Store(m3, node, "s", size)

-----------------------------------------------------------------------------
\* pool_alloc

RECURSIVE alloc_scan(_, _, _, _)
alloc_scan(m, node, size, fuel) ==
  IF node = NULL THEN [n |-> NULL, st |-> "ok"]
  ELSE IF node \notin m.live THEN [n |-> node, st |-> "ub"]
  ELSE IF fuel = 0 THEN [n |-> node, st |-> "hang"]
  ELSE IF m.heap[node].s < size
    THEN alloc_scan(m, m.heap[node].next, size, fuel - 1)
    ELSE [n |-> node, st |-> "ok"]

pool_alloc(m, size, id) ==
  LET r == alloc_scan(m, m.available, size, MaxNodes) IN
  IF r.st # "ok" THEN Stop(m, r.st)
  ELSE IF r.n = NULL THEN [m EXCEPT !.ret = NOADDR]
  ELSE
    LET node == r.n
        m1 == IF m.heap[node].s = size
                THEN same_size_available(m, node)
                ELSE more_size_available(m, node, size, id)
        m2 == add_active(m1, node)
        m3 == Deref(m2, node)
    IN [m3 EXCEPT !.ret = m3.heap[node].start]

-----------------------------------------------------------------------------
\* add_available

RECURSIVE add_available_scan(_, _, _, _)
add_available_scan(m, curr, node, fuel) ==
  IF curr \notin m.live \/ node \notin m.live THEN [n |-> curr, st |-> "ub"]
  ELSE IF fuel = 0 THEN [n |-> curr, st |-> "hang"]
  ELSE IF m.heap[curr].start > m.heap[node].start THEN [n |-> curr, st |-> "ok"]
  ELSE IF m.heap[curr].next = NULL THEN [n |-> curr, st |-> "ok"]
  ELSE add_available_scan(m, m.heap[curr].next, node, fuel - 1)

\* lines 200-212: link node after pre_node, or merge it into pre_node;
\* the result is the machine state and new_prev
add_available_front(m, node, pre_node) ==
  IF pre_node = NULL THEN
    [m |-> [m EXCEPT !.available = node], new_prev |-> node]
  ELSE IF pre_node \notin m.live THEN
    [m |-> Stop(m, "ub"), new_prev |-> node]
  ELSE IF m.heap[pre_node].start + m.heap[pre_node].s = m.heap[node].start THEN
    LET m1 == Store(m, pre_node, "s", m.heap[pre_node].s + m.heap[node].s)
    IN [m |-> Free(m1, node), new_prev |-> pre_node]
  ELSE
    LET m1 == Store(m, pre_node, "next", node)
    IN [m |-> Store(m1, node, "prev", pre_node), new_prev |-> node]

\* lines 213-225: link new_prev before curr_node, or merge curr_node into it
add_available_back(m, new_prev, curr_node) ==
  IF curr_node = NULL THEN Store(m, new_prev, "next", NULL)
  ELSE
    LET m0 == Deref(Deref(m, new_prev), curr_node) IN
    IF m0.heap[new_prev].start + m0.heap[new_prev].s = m0.heap[curr_node].start THEN
      LET m1 == Store(m0, new_prev, "s", m0.heap[new_prev].s + m0.heap[curr_node].s)
          m2 == Store(m1, new_prev, "next", m1.heap[curr_node].next)
          m3 == IF m2.heap[curr_node].next # NULL
                  THEN Store(m2, m2.heap[curr_node].next, "prev", new_prev)
                  ELSE m2
      IN Free(m3, curr_node)
    ELSE
      LET m1 == Store(m0, new_prev, "next", curr_node)
      IN Store(m1, curr_node, "prev", new_prev)

add_available(m, node) ==
  IF m.available # NULL THEN
    LET r == add_available_scan(m, m.available, node, MaxNodes) IN
    IF r.st # "ok" THEN Stop(m, r.st)
    ELSE
      LET above == m.heap[r.n].start > m.heap[node].start
          pre_node == IF above THEN m.heap[r.n].prev ELSE r.n
          curr_node == IF above THEN r.n ELSE NULL
          f == add_available_front(m, node, pre_node)
      IN add_available_back(f.m, f.new_prev, curr_node)
  ELSE
    LET m1 == Store(m, node, "next", NULL)
        m2 == Store(m1, node, "prev", NULL)
    IN [m2 EXCEPT !.available = node]

-----------------------------------------------------------------------------
\* find_active, pool_free

RECURSIVE find_active_scan(_, _, _, _)
find_active_scan(m, node, addr, fuel) ==
  IF node = NULL THEN [n |-> NULL, st |-> "ok"]
  ELSE IF node \notin m.live THEN [n |-> node, st |-> "ub"]
  ELSE IF fuel = 0 THEN [n |-> node, st |-> "hang"]
  ELSE IF m.heap[node].start = addr THEN [n |-> node, st |-> "ok"]
  ELSE find_active_scan(m, m.heap[node].next, addr, fuel - 1)

find_active(m, addr) == find_active_scan(m, m.active, addr, MaxNodes)

\* lines 239-251: unlink node from the active list
pool_free_unlink(m, node) ==
  LET pre_node == m.heap[node].prev
      next_node == m.heap[node].next
  IN
  IF pre_node = NULL /\ next_node = NULL THEN [m EXCEPT !.active = NULL]
  ELSE IF next_node = NULL THEN Store(m, pre_node, "next", NULL)
  ELSE IF pre_node = NULL THEN
    Store([m EXCEPT !.active = next_node], next_node, "prev", NULL)
  ELSE
    LET m1 == Store(m, pre_node, "next", next_node)
    IN Store(m1, next_node, "prev", pre_node)

pool_free(m, addr) ==
  LET r == find_active_scan(m, m.active, addr, MaxNodes) IN
  IF r.st # "ok" THEN Stop(m, r.st)
  ELSE IF r.n = NULL THEN [m EXCEPT !.ret = C_false]
  ELSE
    LET m1 == pool_free_unlink(m, r.n)
        m2 == add_available(m1, r.n)
    IN [m2 EXCEPT !.ret = C_true]

-----------------------------------------------------------------------------
\* find_available

RECURSIVE find_available_scan(_, _, _, _)
find_available_scan(m, node, addr, fuel) ==
  IF node = NULL THEN [n |-> NULL, st |-> "ok"]
  ELSE IF node \notin m.live THEN [n |-> node, st |-> "ub"]
  ELSE IF fuel = 0 THEN [n |-> node, st |-> "hang"]
  ELSE IF ~(m.heap[node].start <= addr) THEN [n |-> NULL, st |-> "ok"]
  ELSE IF m.heap[node].start = addr THEN [n |-> node, st |-> "ok"]
  ELSE find_available_scan(m, m.heap[node].next, addr, fuel - 1)

\* the result is the machine state and the node returned
find_available(m, addr, size, id) ==
  LET r == find_available_scan(m, m.available, addr, MaxNodes) IN
  IF r.st # "ok" THEN [m |-> Stop(m, r.st), n |-> NULL]
  ELSE IF r.n = NULL THEN [m |-> m, n |-> NULL]
  ELSE IF m.heap[r.n].s < size THEN [m |-> m, n |-> NULL]
  ELSE IF m.heap[r.n].s = size
    THEN [m |-> same_size_available(m, r.n), n |-> r.n]
    ELSE [m |-> more_size_available(m, r.n, size, id), n |-> r.n]

-----------------------------------------------------------------------------
\* pool_realloc

\* lines 325-327: my_start[i] = node->start[i] for i = from .. node->s - 1
RECURSIVE copy_bytes(_, _, _, _)
copy_bytes(m, node, my_start, i) ==
  IF node \notin m.live THEN Stop(m, "ub")
  ELSE IF ~(i < m.heap[node].s) THEN m
  ELSE IF (my_start + i) \notin DOMAIN m.buf
          \/ (m.heap[node].start + i) \notin DOMAIN m.buf THEN Stop(m, "ub")
  ELSE copy_bytes([m EXCEPT !.buf[my_start + i] = m.buf[m.heap[node].start + i]],
                  node, my_start, i + 1)

\* lines 313-318
pool_realloc_shrink(m, node, size, id) ==
  LET new_available == id
      m1 == create_node(m, id, m.heap[node].s - size, m.heap[node].start + size)
      m2 == add_available(m1, new_available)
      m3 == Store(m2, node, "s", size)
  IN [m3 EXCEPT !.ret = m3.heap[node].start]

\* pool_realloc_grow with the old Block released whether or not the fallback
\* allocation succeeded
pool_realloc_grow_always_release(m, node, addr, size, id) ==
  LET extra == addr + m.heap[node].s
      fa == find_available(m, extra, size - m.heap[node].s, id)
      new_active == fa.n
  IN
  IF fa.m.err # "" THEN fa.m
  ELSE IF new_active = NULL THEN
    LET a == pool_alloc(fa.m, size, id)
        my_start == a.ret
    IN
    IF a.err # "" THEN a
    ELSE IF my_start # NOADDR THEN
      LET c == copy_bytes(a, node, my_start, 0)
          f == pool_free(c, addr)
      IN [f EXCEPT !.ret = my_start]
    ELSE [pool_free(a, addr) EXCEPT !.ret = NOADDR]
  ELSE
    LET m1 == Free(fa.m, new_active)
        m2 == Store(m1, node, "s", size)
    IN [m2 EXCEPT !.ret = m2.heap[node].start]

\* lines 319-338
pool_realloc_grow(m, node, addr, size, id) ==
  LET extra == addr + m.heap[node].s
      fa == find_available(m, extra, size - m.heap[node].s, id)
      new_active == fa.n
  IN
  IF fa.m.err # "" THEN fa.m
  ELSE IF new_active = NULL THEN
    LET a == pool_alloc(fa.m, size, id)
        my_start == a.ret
    IN
    IF a.err # "" THEN a
    ELSE IF my_start # NOADDR THEN
      LET c == copy_bytes(a, node, my_start, 0)
          f == pool_free(c, addr)
      IN [f EXCEPT !.ret = my_start]
    ELSE [a EXCEPT !.ret = NOADDR]
  ELSE
    LET m1 == Free(fa.m, new_active)
        m2 == Store(m1, node, "s", size)
    IN [m2 EXCEPT !.ret = m2.heap[node].start]

\* pool_realloc without the test for an unchanged size: an equal size takes
\* the grow branch
pool_realloc_no_equal_test(m, addr, size, id) ==
  LET r == find_active(m, addr)
      node == r.n
  IN
  IF r.st # "ok" THEN Stop(m, r.st)
  ELSE IF node = NULL THEN [m EXCEPT !.ret = NOADDR]
  ELSE IF m.heap[node].s > size THEN pool_realloc_shrink(m, node, size, id)
  ELSE pool_realloc_grow(m, node, addr, size, id)

pool_realloc(m, addr, size, id) ==
  LET r == find_active(m, addr)
      node == r.n
  IN
  IF r.st # "ok" THEN Stop(m, r.st)
  ELSE IF node = NULL THEN [m EXCEPT !.ret = NOADDR]
  ELSE IF m.heap[node].s = size THEN [m EXCEPT !.ret = m.heap[node].start]
  ELSE IF m.heap[node].s > size THEN pool_realloc_shrink(m, node, size, id)
  ELSE pool_realloc_grow(m, node, addr, size, id)

-----------------------------------------------------------------------------
\* pool_destroy

pool_destroy(m) ==
  IF m.active # NULL THEN [m EXCEPT !.ret = C_false]
  ELSE
    LET m1 == IF m.available = NULL THEN m ELSE Free(m, m.available)
    IN [m1 EXCEPT !.ret = C_true]

-----------------------------------------------------------------------------
\* The caller: pool_create, then any sequence of calls with valid arguments

Addrs == 0..(cap - 1)
Sizes == 1..(cap + 1)

\* pool_create(size)
Init ==
  /\ cap \in 1..MaxCap
  /\ \E id \in {Min(Nodes)} :
       /\ heap = [n \in Ptr |-> IF n = id
                                  THEN [s |-> cap, start |-> 0,
                                        prev |-> NULL, next |-> NULL]
                                  ELSE Zero]
       /\ live = {id}
       /\ available = id
  /\ active = NULL
  /\ buf = [i \in 0..(cap - 1) |-> i]
  /\ status = "live"
  /\ last = [op |-> "create", ret |-> UNDEF]
  /\ held = {}

\* the call op(addr, size) returns with machine state m, does not return,
\* or has undefined behaviour
Return(op, addr, size, m) ==
  /\ m.err # "oom"
  /\ IF m.err = ""
       THEN /\ heap' = m.heap
            /\ live' = m.live
            /\ active' = m.active
            /\ available' = m.available
            /\ buf' = m.buf
            /\ status' = IF op = "destroy" /\ m.ret = C_true
                           THEN "destroyed" ELSE "live"
            /\ last' = [op |-> op, ret |-> m.ret]
       ELSE /\ status' = m.err
            /\ last' = [op |-> op, ret |-> UNDEF]
            /\ UNCHANGED <<heap, live, active, available, buf>>
  /\ UNCHANGED cap

\* what the caller holds once op(addr, size) has returned ret
Holding(op, addr, size, ret) ==
  IF ret \in {NOADDR, UNDEF} THEN held
  ELSE IF op = "alloc" THEN held \cup {<<ret, size>>}
  ELSE IF op = "free" /\ ret = C_true THEN {h \in held : h[1] # addr}
  ELSE IF op = "realloc" THEN {h \in held : h[1] # addr} \cup {<<ret, size>>}
  ELSE held

AllocCall(size, id) ==
  /\ status = "live"
  /\ Return("alloc", NOADDR, size, pool_alloc(Mach, size, id))

FreeCall(addr) ==
  /\ status = "live"
  /\ Return("free", addr, 0, pool_free(Mach, addr))

ReallocCall(addr, size, id) ==
  /\ status = "live"
  /\ Return("realloc", addr, size, pool_realloc(Mach, addr, size, id))

Alloc ==
  \E size \in Sizes, id \in MallocChoices(Mach) :
    /\ AllocCall(size, id)
    /\ held' = Holding("alloc", NOADDR, size, last'.ret)

Release ==
  \E addr \in Addrs :
    /\ FreeCall(addr)
    /\ held' = Holding("free", addr, 0, last'.ret)

Realloc ==
  \E addr \in Addrs, size \in Sizes, id \in MallocChoices(Mach) :
    /\ ReallocCall(addr, size, id)
    /\ held' = Holding("realloc", addr, size, last'.ret)

DestroyCall ==
  /\ status = "live"
  /\ Return("destroy", NOADDR, 0, pool_destroy(Mach))

Destroy == DestroyCall /\ UNCHANGED held

Next == Alloc \/ Release \/ Realloc \/ Destroy

Spec == Init /\ [][Next]_vars

-----------------------------------------------------------------------------
\* What a traversal by next links sees (as pool_print_active and
\* pool_print_available walk the lists).  The walk stops at NULL, at a cell
\* that is not allocated, and at a cell it has seen.

RECURSIVE Walk(_, _, _)
Walk(m, n, seen) ==
  IF n = NULL \/ n \notin m.live \/ n \in seen THEN <<>>
  ELSE <<n>> \o Walk(m, m.heap[n].next, seen \cup {n})

Range(q) == {q[i] : i \in DOMAIN q}
BlocksOf(m, q) == [i \in DOMAIN q |-> <<m.heap[q[i]].start, m.heap[q[i]].s>>]
ActiveOf(m) == BlocksOf(m, Walk(m, m.active, {}))
AvailableOf(m) == BlocksOf(m, Walk(m, m.available, {}))

ActiveNodes == Walk(Mach, active, {})
AvailableNodes == Walk(Mach, available, {})
ActiveBlocks == ActiveOf(Mach)
AvailableBlocks == AvailableOf(Mach)
ActiveStarts == {ActiveBlocks[k][1] : k \in DOMAIN ActiveBlocks}

\* the length of the first active Block that starts at addr
ActiveLen(addr) ==
  ActiveBlocks[Min({k \in DOMAIN ActiveBlocks : ActiveBlocks[k][1] = addr})][2]

\* a walk that ends at NULL without meeting a freed cell or a cycle
RECURSIVE WellEnded(_, _)
WellEnded(n, seen) ==
  IF n = NULL THEN TRUE
  ELSE IF n \notin live \/ n \in seen THEN FALSE
  ELSE WellEnded(heap[n].next, seen \cup {n})

Covers(b, i) == b[1] <= i /\ i < b[1] + b[2]

\* the number of Blocks of the two lists that byte offset i belongs to
Owners(i) ==
  Cardinality({k \in DOMAIN ActiveBlocks : Covers(ActiveBlocks[k], i)})
  + Cardinality({k \in DOMAIN AvailableBlocks : Covers(AvailableBlocks[k], i)})

Inside(b) == b[1] >= 0 /\ b[2] > 0 /\ b[1] + b[2] <= cap

-----------------------------------------------------------------------------
\* C1: in every state reached from pool_create by allocate, release and
\* resize calls, the Blocks of the active list and of the available list
\* together tile [0, cap): every byte offset belongs to exactly one Block of
\* exactly one list, and no Block reaches outside the buffer.
C1_Tiling ==
  status = "live" =>
    /\ WellEnded(active, {}) /\ WellEnded(available, {})
    /\ \A i \in 0..(cap - 1) : Owners(i) = 1
    /\ \A k \in DOMAIN ActiveBlocks : Inside(ActiveBlocks[k])
    /\ \A k \in DOMAIN AvailableBlocks : Inside(AvailableBlocks[k])

\* C2: no list node is reachable by next links from both p->active and
\* p->available.
C2_OneList ==
  status = "live" => Range(ActiveNodes) \cap Range(AvailableNodes) = {}

\* C3: the available list never holds two Blocks that are address-adjacent
\* (one's offset + length equal to the other's offset).
C3_Coalesced ==
  status = "live" =>
    \A j, k \in DOMAIN AvailableBlocks :
      AvailableBlocks[j][1] + AvailableBlocks[j][2] # AvailableBlocks[k][1]

-----------------------------------------------------------------------------
\* the last step was a call that reported failure
Failed(l) ==
  \/ l.op \in {"alloc", "realloc"} /\ l.ret = NOADDR
  \/ l.op \in {"free", "destroy"} /\ l.ret = C_false

\* C4: a call that fails (allocate or resize returning NULL, release or
\* destroy returning false) leaves the llnode cells, both lists and the
\* buffer bytes as they were before the call.
C4_FailureChangesNothing ==
  [][Failed(last') =>
       /\ UNCHANGED <<heap, live, active, available, buf>>
       /\ ActiveBlocks' = ActiveBlocks
       /\ AvailableBlocks' = AvailableBlocks
       /\ status' = "live"]_vars

\* a resize has failed in a pool of cap one-byte active Blocks and no free
\* Block: its address was found, so it is the grow and then the fallback
\* allocation that failed
C4_Witness ==
  /\ status = "live"
  /\ last = [op |-> "realloc", ret |-> NOADDR]
  /\ available = NULL
  /\ cap > 1
  /\ Len(ActiveBlocks) = cap
  /\ ActiveStarts = Addrs

\* the lowest offset among the available Blocks of length >= size
Fits(size) == {k \in DOMAIN AvailableBlocks : AvailableBlocks[k][2] >= size}
FirstFit(size) == Min({AvailableBlocks[k][1] : k \in Fits(size)})

\* C5: allocate(size) succeeds if and only if some available Block has
\* length >= size, and then returns the offset of the lowest-offset such Block.
C5_FirstFit ==
  [][\A size \in Sizes, id \in Ptr :
       AllocCall(size, id) /\ status' = "live" =>
         /\ (last'.ret # NOADDR) <=> (Fits(size) # {})
         /\ Fits(size) # {} => last'.ret = FirstFit(size)]_vars

\* C6: release(offset) returns true if and only if offset is the start of a
\* Block of the active list; on true no active Block starts at offset any
\* more and the available list covers [offset, offset + length).
C6_Release ==
  [][\A addr \in Addrs :
       FreeCall(addr) /\ status' = "live" =>
         /\ (last'.ret = C_true) <=> (addr \in ActiveStarts)
         /\ last'.ret = C_true =>
              /\ addr \notin ActiveStarts'
              /\ \A i \in addr..(addr + ActiveLen(addr) - 1) :
                   \E k \in DOMAIN AvailableBlocks' :
                     Covers(AvailableBlocks'[k], i)]_vars

\* release every Block the active list shows, lowest offset first, as a
\* caller that returns all its allocations does
RECURSIVE ReleaseAll(_, _)
ReleaseAll(m, fuel) ==
  LET starts == {ActiveOf(m)[k][1] : k \in DOMAIN ActiveOf(m)} IN
  IF m.err # "" \/ m.active = NULL \/ starts = {} \/ fuel = 0 THEN m
  ELSE ReleaseAll(pool_free(m, Min(starts)), fuel - 1)

\* C7: destroy returns true if and only if the active list is empty, a
\* destroy that returns false changes nothing, and in any reachable state,
\* once every outstanding allocation has been released, destroy returns true.
C7_Destroy ==
  /\ [][last'.op = "destroy" /\ last'.ret # UNDEF =>
          /\ (last'.ret = C_true) <=> (active = NULL)
          /\ last'.ret = C_false =>
               UNCHANGED <<heap, live, active, available, buf>> /\ status' = "live"]_vars
  /\ [](status = "live" =>
          LET m == ReleaseAll(Mach, MaxNodes) IN
          m.err = "" /\ pool_destroy(m).err = "" /\ pool_destroy(m).ret = C_true)

\* C8: whenever the active list is empty the available list is the one
\* Block (0, cap) and its node is the only llnode cell allocated, so the
\* single free of p->available in pool_destroy releases every cell.
C8_DestroyFreesAll ==
  status = "live" /\ active = NULL =>
    /\ AvailableBlocks = <<<<0, cap>>>>
    /\ available \in live
    /\ live = {available}

\* C9: allocate(n) that succeeds, followed at once by release of the offset
\* it returned, leaves both lists with the (offset, length) Blocks they had
\* before the allocate.
C9_RoundTrip ==
  status = "live" =>
    \A n \in Sizes, id \in MallocChoices(Mach) :
      LET a == pool_alloc(Mach, n, id) IN
      (a.err = "" /\ a.ret # NOADDR) =>
        LET f == pool_free(a, a.ret) IN
        /\ f.err = ""
        /\ f.ret = C_true
        /\ AvailableOf(f) = AvailableBlocks
        /\ ActiveOf(f) = ActiveBlocks

\* C10: resize(addr, L) where addr is the start of an active Block of
\* length L returns addr and changes neither list nor the buffer.
C10_ResizeSameSize ==
  [][\A addr \in Addrs, id \in Ptr :
       (addr \in ActiveStarts /\ ReallocCall(addr, ActiveLen(addr), id)) =>
         /\ last'.ret = addr
         /\ status' = "live"
         /\ UNCHANGED <<heap, live, active, available, buf>>]_vars

\* a resize has returned its address in a pool of cap one-byte active
\* Blocks and no free Block: a shrink would have left a free Block and a
\* grow a longer Block, so the size asked for was the Block's own
C10_Witness ==
  /\ status = "live"
  /\ last.op = "realloc"
  /\ last.ret \in Addrs
  /\ available = NULL
  /\ cap > 1
  /\ Len(ActiveBlocks) = cap
  /\ ActiveStarts = Addrs

-----------------------------------------------------------------------------
\* the Blocks of each list as sets
ActiveSet == Range(ActiveBlocks)
AvailableSet == Range(AvailableBlocks)

\* the available Blocks that start at offset o
FreeAt(o) == {b \in AvailableSet : b[1] = o}

\* C11: resize(addr, new_size) with 0 < new_size < L on an active Block
\* (addr, L) returns addr; afterwards the active Block is (addr, new_size),
\* the range [addr + new_size, addr + L) is an available Block, merged with
\* the free Block that started at addr + L when there was one, and every
\* other Block of either list is unchanged.
C11_Shrink ==
  [][\A addr \in Addrs, size \in Sizes, id \in Ptr :
       (addr \in ActiveStarts /\ size < ActiveLen(addr)
          /\ ReallocCall(addr, size, id)) =>
         LET L == ActiveLen(addr)
             above == FreeAt(addr + L)
             merged == IF above = {} THEN <<addr + size, L - size>>
                       ELSE LET b == CHOOSE b \in above : TRUE
                            IN <<addr + size, L - size + b[2]>>
         IN /\ status' = "live"
            /\ last'.ret = addr
            /\ ActiveSet' = (ActiveSet \ {<<addr, L>>}) \cup {<<addr, size>>}
            /\ AvailableSet' = (AvailableSet \ above) \cup {merged}]_vars

-----------------------------------------------------------------------------
\* the position in the available list of its first Block that starts at o
FreePos(o) == Min({k \in DOMAIN AvailableBlocks : AvailableBlocks[k][1] = o})

RemoveAt(q, k) == SubSeq(q, 1, k - 1) \o SubSeq(q, k + 1, Len(q))

\* C12: resize(addr, new_size) with new_size > L on an active Block (addr, L),
\* when the available list holds a Block (addr + L, F) with
\* F >= new_size - L, returns addr; afterwards the active Block is
\* (addr, new_size), the free Block is gone if F = new_size - L and otherwise
\* is (addr + new_size, F - (new_size - L)) at the same list position, and
\* every other Block is unchanged.
C12_GrowInPlace ==
  [][\A addr \in Addrs, size \in Sizes, id \in Ptr :
       (addr \in ActiveStarts /\ size > ActiveLen(addr)
          /\ FreeAt(addr + ActiveLen(addr)) # {}
          /\ ReallocCall(addr, size, id)) =>
         LET L == ActiveLen(addr)
             k == FreePos(addr + L)
             F == AvailableBlocks[k][2]
         IN F >= size - L =>
              /\ status' = "live"
              /\ last'.ret = addr
              /\ ActiveSet' = (ActiveSet \ {<<addr, L>>}) \cup {<<addr, size>>}
              /\ AvailableBlocks' =
                   IF F = size - L
                     THEN RemoveAt(AvailableBlocks, k)
                     ELSE [AvailableBlocks EXCEPT
                             ![k] = <<addr + size, F - (size - L)>>]]_vars

-----------------------------------------------------------------------------
\* A second caller: a pool of MaxCap + 1 bytes, from which the caller asks
\* for at most MaxAsk bytes at a time.  Three one-byte Blocks and a free
\* Block of two bytes behind them need a buffer of four bytes.  This caller
\* keeps no record of what it holds.

MaxAsk == 2        \* largest size asked of a pool of MaxCap + 1 bytes

SmallSizes == 1..MaxAsk

\* pool_create(MaxCap + 1)
WideInit ==
  /\ cap = MaxCap + 1
  /\ \E id \in {Min(Nodes)} :
       /\ heap = [n \in Ptr |-> IF n = id
                                  THEN [s |-> cap, start |-> 0,
                                        prev |-> NULL, next |-> NULL]
                                  ELSE Zero]
       /\ live = {id}
       /\ available = id
  /\ active = NULL
  /\ buf = [i \in 0..(cap - 1) |-> i]
  /\ status = "live"
  /\ last = [op |-> "create", ret |-> UNDEF]
  /\ held = {}

SmallAlloc ==
  \E size \in SmallSizes, id \in MallocChoices(Mach) :
    AllocCall(size, id) /\ UNCHANGED held

WideRelease == \E addr \in Addrs : FreeCall(addr) /\ UNCHANGED held

SmallRealloc ==
  \E addr \in Addrs, size \in SmallSizes, id \in MallocChoices(Mach) :
    ReallocCall(addr, size, id) /\ UNCHANGED held

WideDestroy == DestroyCall /\ UNCHANGED held

WideNext == SmallAlloc \/ WideRelease \/ SmallRealloc \/ WideDestroy

WideSpec == WideInit /\ [][WideNext]_vars

\* C13: resize(addr, new_size) with new_size > L on an active Block
\* (addr, L), when no available Block starts at addr + L with length
\* >= new_size - L but some available Block has length >= new_size, returns
\* the first-fit offset for new_size, which is not addr; afterwards the first
\* L bytes at the new offset are the bytes that were at [addr, addr + L), the
\* Block (new offset, new_size) is active, no active Block starts at addr and
\* [addr, addr + L) is covered by the available list.
C13_GrowFallback ==
  [][\A addr \in Addrs, size \in Sizes, id \in Ptr :
       (addr \in ActiveStarts /\ size > ActiveLen(addr)
          /\ (\A b \in FreeAt(addr + ActiveLen(addr)) :
                b[2] < size - ActiveLen(addr))
          /\ Fits(size) # {}
          /\ ReallocCall(addr, size, id)) =>
         LET L == ActiveLen(addr)
             r == last'.ret
         IN /\ status' = "live"
            /\ r = FirstFit(size)
            /\ r # addr
            /\ \A i \in 0..(L - 1) : buf'[r + i] = buf[addr + i]
            /\ <<r, size>> \in ActiveSet'
            /\ addr \notin ActiveStarts'
            /\ \A i \in addr..(addr + L - 1) :
                 \E k \in DOMAIN AvailableBlocks' :
                   Covers(AvailableBlocks'[k], i)]_vars

-----------------------------------------------------------------------------
\* the offsets of a sequence of Blocks are strictly ascending
Ascending(q) == \A i \in 1..(Len(q) - 1) : q[i][1] < q[i + 1][1]

\* C14: in every reachable state the active list and the available list,
\* traversed from their heads by next links, are in strictly ascending
\* offset order.
C14_Ascending ==
  status = "live" => Ascending(ActiveBlocks) /\ Ascending(AvailableBlocks)

-----------------------------------------------------------------------------
\* the position in the available list of the Block pool_alloc chooses: the
\* first, in list order, of length >= size
Chosen(size) == Min(Fits(size))

\* C15: when allocate chooses a free Block (o, len) with len > size, the new
\* active Block is (o, size) and the tail (o + size, len - size) takes the
\* chosen Block's place in the available list; when len = size the chosen
\* Block is removed from the available list; no other free Block changes.
C15_Split ==
  [][\A size \in Sizes, id \in Ptr :
       (Fits(size) # {} /\ AllocCall(size, id)) =>
         LET k == Chosen(size)
             o == AvailableBlocks[k][1]
             len == AvailableBlocks[k][2]
         IN /\ status' = "live"
            /\ last'.ret = o
            /\ <<o, size>> \in ActiveSet'
            /\ AvailableBlocks' =
                 IF len > size
                   THEN [AvailableBlocks EXCEPT ![k] = <<o + size, len - size>>]
                   ELSE RemoveAt(AvailableBlocks, k)]_vars

-----------------------------------------------------------------------------
\* following next links from n never comes back to a cell already visited
RECURSIVE Acyclic(_, _)
Acyclic(n, seen) ==
  IF n = NULL \/ n \notin live THEN TRUE
  ELSE IF n \in seen THEN FALSE
  ELSE Acyclic(heap[n].next, seen \cup {n})

\* C16: every call made in a reachable state terminates: no call is left
\* scanning a list without end, because neither list ever holds a cycle.
C16_Terminates ==
  /\ status # "hang"
  /\ status = "live" => Acyclic(active, {}) /\ Acyclic(available, {})

-----------------------------------------------------------------------------
\* two <<offset, size>> ranges that share no byte
Apart(a, b) == a[1] + a[2] <= b[1] \/ b[1] + b[2] <= a[1]

\* C17: the range [r, r + size) returned by a successful allocate or resize
\* shares no byte with any other allocation the caller holds (returned and
\* not yet released or moved).
C17_NoOverlap ==
  [][/\ \A size \in Sizes, id \in Ptr :
          (AllocCall(size, id) /\ status' = "live" /\ last'.ret # NOADDR) =>
            \A h \in held : Apart(<<last'.ret, size>>, h)
     /\ \A addr \in Addrs, size \in Sizes, id \in Ptr :
          (ReallocCall(addr, size, id) /\ status' = "live"
             /\ last'.ret # NOADDR) =>
            \A h \in held : h[1] # addr => Apart(<<last'.ret, size>>, h)]_vars

\* C18: an allocation the caller holds stays the start of an active Block
\* with the length it was returned with, whatever calls are made on other
\* offsets, and a release of it returns true.
C18_Frame ==
  status = "live" =>
    \A h \in held :
      /\ h \in ActiveSet
      /\ pool_free(Mach, h[1]).err = ""
      /\ pool_free(Mach, h[1]).ret = C_true

-----------------------------------------------------------------------------
\* the head node h of a list has no predecessor
HeadOK(h) == h \in live => heap[h].prev = NULL

\* in the walk q of a list every node is the prev of its successor
LinksOK(q) == \A i \in 1..(Len(q) - 1) : heap[q[i + 1]].prev = q[i]

\* C19: in every reachable state both lists are well-formed doubly-linked
\* lists: the head node of each list has prev = NULL, and n.next.prev = n
\* for every node n with a successor.
C19_WellFormed ==
  status = "live" =>
    /\ HeadOK(active) /\ HeadOK(available)
    /\ LinksOK(ActiveNodes) /\ LinksOK(AvailableNodes)

====
